---- MODULE Spec2Model ----
(***************************************************************************)
(* Model of AuthService (src/unnamed/part_001): registration, login,       *)
(* refresh-token rotation, password reset and role promotion, as request   *)
(* handlers that interleave at their await points over the shared User and *)
(* PasswordReset tables.                                                   *)
(* Start-up is the options factory of AuthModule (src/unnamed/part_004).    *)
(***************************************************************************)
EXTENDS Integers, Sequences, FiniteSets, TLC

VARIABLES
    users,      \* User table: id -> row (NoUser where no row exists)
    resets,     \* PasswordReset table: set of rows
    outbox,     \* mails handed to MailService.sendEmail
    now,        \* wall clock, in seconds
    ticks,      \* number of clock advances so far
    calls,      \* number of handler invocations started so far
    proc,       \* per request slot: the running (or last finished) handler call
    known,      \* refresh tokens that have been returned to a caller
    minted,     \* per user: refresh tokens signed so far, in signing order
    boundTo,    \* per user: the refresh token whose hash was written last
    rotated,    \* refresh tokens presented to a refreshTokens call that succeeded
    consumed,   \* reset tokens presented to a resetPassword call that succeeded
    promoted,   \* ids of the users a SUPER_ADMIN's promoteToAdmin has saved as ADMIN
    config,     \* ConfigService: value of each configuration key
    app         \* the Nest application: "starting", "running" or "aborted"

vars == <<config, app, users, resets, outbox, now, ticks, calls, proc, known, minted, boundTo, rotated, consumed, promoted>>

---------------------------------------------------------------------------
\* Bounds of the model.
MaxTicks == 2
MaxCalls == 3

Procs == {"p1", "p2"}
UserIds == {1, 2, 3}
Emails == {"root@x.com", "a@x.com", "b@x.com"}
Passwords == {"pw1", "pw2"}

---------------------------------------------------------------------------
\* Program constants.

\* UserRole enum, in the order USER < ADMIN < SUPER_ADMIN.
UserRole == {"USER", "ADMIN", "SUPER_ADMIN"}

RoleRank(r) ==
    CASE r = "USER" -> 0
      [] r = "ADMIN" -> 1
      [] r = "SUPER_ADMIN" -> 2
      [] OTHER -> 0

\* expiresIn: '15m' and '7d' of getTokens, addMinutes(new Date(), 15) of
\* sendPasswordResetEmail; all in seconds.
AccessExpiresIn == 900
RefreshExpiresIn == 604800
ResetValidity == 900

\* The clock advances by a second, by the reset validity or by the refresh lifetime.
TickSteps == {1, ResetValidity, RefreshExpiresIn}

---------------------------------------------------------------------------
\* Configuration (ConfigService).

ConfigKeys == {"JWT_SECRET", "JWT_REFRESH_SECRET"}

\* What configService.get returns for a key that is not set.
Undefined == "undefined"

\* The deployed configuration: each secret is written as the name of its key.
Configured == [k \in ConfigKeys |-> k]

\* configService.get<string>(key)
ConfigGet(key) == config[key]

\* `!value` of a string: undefined and the empty string are falsy.
Falsy(value) == value = Undefined \/ value = ""

---------------------------------------------------------------------------
\* JSON web tokens (jwtService.signAsync / verifyAsync).

NoJwt == [sub |-> 0, email |-> "", iat |-> 0, exp |-> 0, secret |-> ""]

\* signAsync({sub, email}, {secret, expiresIn}): the signed token is a function of
\* the payload, the secret and the issue time in whole seconds (iat), nothing else:
\* two tokens signed for the same user within one second are the same string.
JwtSign(sub, email, secret, expiresIn, t) ==
    [sub |-> sub, email |-> email, iat |-> t, exp |-> t + expiresIn, secret |-> secret]

\* verifyAsync(token, {secret}): the signature must be of that secret and the
\* token must not have expired (jsonwebtoken rejects when clock >= exp).
JwtVerify(token, secret, t) ==
    /\ token.secret = secret
    /\ t < token.exp

NoTokens == [accessToken |-> NoJwt, refreshToken |-> NoJwt]

\* getTokens(userId, email)
getTokens(userId, email, t) ==
    [accessToken  |-> JwtSign(userId, email, ConfigGet("JWT_SECRET"), AccessExpiresIn, t),
     refreshToken |-> JwtSign(userId, email, ConfigGet("JWT_REFRESH_SECRET"), RefreshExpiresIn, t)]

---------------------------------------------------------------------------
\* bcrypt (bcryptjs hash / compare).  The per-call random salt is left out: it
\* makes two hashes of one input differ as strings and has no effect on compare.

\* bcrypt reads the first 72 bytes of its input.  A token is the 36-character
\* header, a dot, and the base64url of {"sub":"<uuid>","email":"...","iat":..,"exp":..}.
BcryptMaxBytes == 72
JwtHeaderChars == 37
UuidChars == 36

\* Bytes of the JSON payload that lie (wholly) within bcrypt's input window.
PayloadBytesKept == ((BcryptMaxBytes - JwtHeaderChars) * 3) \div 4

\* Offsets of the values in the payload: {"sub":" is 8 bytes, ","email":" is 11,
\* ","iat": is 8 (iat follows the email, whatever its length).
SubOffset == 8
EmailOffset == SubOffset + UuidChars + 11
IatOffset == EmailOffset + 8

\* What bcrypt sees of a refresh token.  The window ends inside the uuid of sub
\* (after 18 of its characters, which tell users apart); email, iat and exp lie
\* beyond it.
Trunc72Jwt(token) ==
    [sub   |-> IF SubOffset < PayloadBytesKept THEN token.sub ELSE 0,
     email |-> IF EmailOffset < PayloadBytesKept THEN token.email ELSE "",
     iat   |-> IF IatOffset < PayloadBytesKept THEN token.iat ELSE 0]

NoHash == [set |-> FALSE, key |-> Trunc72Jwt(NoJwt)]

\* bcrypt.hash(refreshToken, 10)
BcryptHashJwt(token) == [set |-> TRUE, key |-> Trunc72Jwt(token)]

\* bcrypt.compare(refreshToken, user.refreshToken)
BcryptCompareJwt(token, hash) == hash.set /\ hash.key = Trunc72Jwt(token)

\* bcrypt.hash(password, 10) and bcrypt.compare(password, user.password), for
\* passwords shorter than 72 bytes.
BcryptHash(password) == [digest |-> password]

BcryptCompare(password, hash) == hash = BcryptHash(password)

---------------------------------------------------------------------------
\* Rows and request slots.

NoUser == [id |-> 0, email |-> "", password |-> BcryptHash(""), role |-> "USER", refreshToken |-> NoHash]

NoReset == [id |-> 0, user |-> 0, token |-> 0, expiresAt |-> 0]

NoArg == [email |-> "", password |-> "", role |-> "USER", refreshToken |-> NoJwt, token |-> 0, requesterId |-> 0, targetUserId |-> 0]

Idle == [op |-> "none", pc |-> "done", arg |-> NoArg, user |-> NoUser, reset |-> NoReset, tokens |-> NoTokens, result |-> "none", late |-> FALSE, wrote |-> FALSE]

\* userRepository.findOne({ where: { email } })
FindByEmail(email) ==
    IF \E i \in UserIds : users[i].id # 0 /\ users[i].email = email
    THEN users[CHOOSE i \in UserIds : users[i].id # 0 /\ users[i].email = email /\ \A j \in UserIds : (users[j].id # 0 /\ users[j].email = email) => i <= j]
    ELSE NoUser

\* userRepository.findOne({ where: { id } })
FindById(id) == IF id \in UserIds THEN users[id] ELSE NoUser

Start(p, op, arg) ==
    /\ app = "running"
    /\ proc[p].pc = "done"
    /\ calls < MaxCalls
    /\ calls' = calls + 1
    /\ proc' = [proc EXCEPT ![p] = [Idle EXCEPT !.op = op, !.pc = "start", !.arg = arg,
                                                  !.late = (arg.refreshToken \in rotated) \/ (arg.token \in consumed)]]

\* The handler of slot p ends with `result`.
Finish(p, result) == [proc[p] EXCEPT !.pc = "done", !.result = result]

---------------------------------------------------------------------------
\* The clock.

Tick ==
    /\ ticks < MaxTicks
    /\ \E d \in TickSteps : now' = now + d
    /\ ticks' = ticks + 1
    /\ UNCHANGED <<config, app, users, resets, outbox, calls, proc, known, minted, boundTo, rotated, consumed, promoted>>

---------------------------------------------------------------------------
\* login(loginDto)

Login(p, email, password) ==
    /\ Start(p, "login", [NoArg EXCEPT !.email = email, !.password = password])
    /\ UNCHANGED <<config, app, users, resets, outbox, now, ticks, known, minted, boundTo, rotated, consumed, promoted>>

\* validateUser without the bcrypt.compare.
validateUser_NoCompare(email, password) == FindByEmail(email)

\* validateUser(email, password): findOne by email, then bcrypt.compare; login
\* throws UnauthorizedException('Invalid email or password') on null.
validateUser(email, password) ==
    LET user == FindByEmail(email)
    IN  IF user.id # 0 /\ BcryptCompare(password, user.password) THEN user ELSE NoUser

LoginValidate(p) ==
    /\ proc[p].op = "login" /\ proc[p].pc = "start"
    /\ LET user == validateUser(proc[p].arg.email, proc[p].arg.password)
       IN  proc' = [proc EXCEPT ![p] =
                IF user.id = 0 THEN Finish(p, "InvalidCredentials")
                ELSE [proc[p] EXCEPT !.pc = "sign", !.user = user]]
    /\ UNCHANGED <<config, app, users, resets, outbox, now, ticks, calls, known, minted, boundTo, rotated, consumed, promoted>>

---------------------------------------------------------------------------
\* refreshTokens(refreshToken)

RefreshTokens(p, refreshToken) ==
    /\ Start(p, "refresh", [NoArg EXCEPT !.refreshToken = refreshToken])
    /\ UNCHANGED <<config, app, users, resets, outbox, now, ticks, known, minted, boundTo, rotated, consumed, promoted>>

\* refreshTokens without its catch: the error of verifyAsync reaches the caller.
RefreshVerify_NoCatch(p) ==
    /\ proc[p].op = "refresh" /\ proc[p].pc = "start"
    /\ proc' = [proc EXCEPT ![p] =
            IF JwtVerify(proc[p].arg.refreshToken, ConfigGet("JWT_REFRESH_SECRET"), now)
            THEN [proc[p] EXCEPT !.pc = "find"]
            ELSE Finish(p, "JsonWebTokenError")]
    /\ UNCHANGED <<config, app, users, resets, outbox, now, ticks, calls, known, minted, boundTo, rotated, consumed, promoted>>

\* jwtService.verifyAsync(refreshToken, { secret: JWT_REFRESH_SECRET }); a throw is
\* caught and rethrown as Error('Invalid refresh token').
RefreshVerify(p) ==
    /\ proc[p].op = "refresh" /\ proc[p].pc = "start"
    /\ proc' = [proc EXCEPT ![p] =
            IF JwtVerify(proc[p].arg.refreshToken, ConfigGet("JWT_REFRESH_SECRET"), now)
            THEN [proc[p] EXCEPT !.pc = "find"]
            ELSE Finish(p, "InvalidRefreshToken")]
    /\ UNCHANGED <<config, app, users, resets, outbox, now, ticks, calls, known, minted, boundTo, rotated, consumed, promoted>>

\* The binding check on a loaded row: !user || !user.refreshToken, then bcrypt.compare.
RefreshAccepts(user, refreshToken) ==
    /\ user.id # 0
    /\ user.refreshToken.set
    /\ BcryptCompareJwt(refreshToken, user.refreshToken)

\* findOne({ where: { id: payload.sub } }) and the binding check.
RefreshFind(p) ==
    /\ proc[p].op = "refresh" /\ proc[p].pc = "find"
    /\ LET user == FindById(proc[p].arg.refreshToken.sub)
       IN  proc' = [proc EXCEPT ![p] =
                IF RefreshAccepts(user, proc[p].arg.refreshToken)
                THEN [proc[p] EXCEPT !.pc = "sign", !.user = user]
                ELSE Finish(p, "InvalidRefreshToken")]
    /\ UNCHANGED <<config, app, users, resets, outbox, now, ticks, calls, known, minted, boundTo, rotated, consumed, promoted>>

---------------------------------------------------------------------------
\* The tail shared by login and refreshTokens.

\* const tokens = await this.getTokens(user.id, user.email)
GetTokens(p) ==
    /\ proc[p].op \in {"login", "refresh"} /\ proc[p].pc = "sign"
    /\ LET tokens == getTokens(proc[p].user.id, proc[p].user.email, now)
       IN  /\ proc' = [proc EXCEPT ![p] = [proc[p] EXCEPT !.pc = "update", !.tokens = tokens]]
           /\ minted' = [minted EXCEPT ![proc[p].user.id] = Append(@, tokens.refreshToken)]
    /\ UNCHANGED <<config, app, users, resets, outbox, now, ticks, calls, known, boundTo, rotated, consumed, promoted>>

\* updateRefreshToken(userId, refreshToken): UPDATE of the one column of the row.
updateRefreshToken(userId, refreshToken) ==
    [users EXCEPT ![userId] =
        IF @.id = 0 THEN @ ELSE [@ EXCEPT !.refreshToken = BcryptHashJwt(refreshToken)]]

\* await this.updateRefreshToken(user.id, tokens.refreshToken); return tokens
UpdateRefreshToken(p) ==
    /\ proc[p].op \in {"login", "refresh"} /\ proc[p].pc = "update"
    /\ users' = updateRefreshToken(proc[p].user.id, proc[p].tokens.refreshToken)
    /\ boundTo' = [boundTo EXCEPT ![proc[p].user.id] = proc[p].tokens.refreshToken]
    /\ known' = known \cup {proc[p].tokens.refreshToken}
    /\ rotated' = IF proc[p].op = "refresh" THEN rotated \cup {proc[p].arg.refreshToken} ELSE rotated
    /\ proc' = [proc EXCEPT ![p] = [Finish(p, "ok") EXCEPT !.wrote = TRUE]]
    /\ UNCHANGED <<config, app, resets, outbox, now, ticks, calls, minted, consumed, promoted>>

\* userRepository.update rejects inside updateRefreshToken: login lets the error
\* through; the catch of refreshTokens rethrows it as Error('Invalid refresh token').
UpdateRefreshTokenFails(p) ==
    /\ proc[p].op \in {"login", "refresh"} /\ proc[p].pc = "update"
    /\ proc' = [proc EXCEPT ![p] =
            Finish(p, IF proc[p].op = "refresh" THEN "InvalidRefreshToken" ELSE "QueryFailedError")]
    /\ UNCHANGED <<config, app, users, resets, outbox, now, ticks, calls, known, minted, boundTo, rotated, consumed, promoted>>

---------------------------------------------------------------------------
\* sendPasswordResetEmail(email)

SendPasswordResetEmail(p, email) ==
    /\ Start(p, "sendReset", [NoArg EXCEPT !.email = email])
    /\ UNCHANGED <<config, app, users, resets, outbox, now, ticks, known, minted, boundTo, rotated, consumed, promoted>>

\* Reset tokens in the table, consumed, or generated by a call still in flight.
UsedResetTokens ==
    {r.token : r \in resets} \cup consumed \cup {proc[q].reset.token : q \in Procs}

\* crypto.randomBytes(32).toString('hex'): a value never generated before.
FreshResetToken == CHOOSE t \in 1..(MaxCalls + 3) : t \notin UsedResetTokens /\ \A u \in 1..(t - 1) : u \in UsedResetTokens

\* SendFind without its `if (!user) return`.
SendFind_NoUserCheck(p) ==
    /\ proc[p].op = "sendReset" /\ proc[p].pc = "start"
    /\ LET user == FindByEmail(proc[p].arg.email)
           token == FreshResetToken
       IN  proc' = [proc EXCEPT ![p] =
                [proc[p] EXCEPT !.pc = "save", !.user = user,
                    !.reset = [id |-> token, user |-> user.id, token |-> token, expiresAt |-> now + ResetValidity]]]
    /\ UNCHANGED <<config, app, users, resets, outbox, now, ticks, calls, known, minted, boundTo, rotated, consumed, promoted>>

\* findOne by email; `if (!user) return`; otherwise the token, its expiry
\* (addMinutes(new Date(), 15)) and the row to save are built.
SendFind(p) ==
    /\ proc[p].op = "sendReset" /\ proc[p].pc = "start"
    /\ LET user == FindByEmail(proc[p].arg.email)
           token == FreshResetToken
       IN  proc' = [proc EXCEPT ![p] =
                IF user.id = 0 THEN Finish(p, "ok")
                ELSE [proc[p] EXCEPT !.pc = "save", !.user = user,
                         !.reset = [id |-> token, user |-> user.id, token |-> token, expiresAt |-> now + ResetValidity]]]
    /\ UNCHANGED <<config, app, users, resets, outbox, now, ticks, calls, known, minted, boundTo, rotated, consumed, promoted>>

\* await this.passwordResetRepository.save(reset)
SendSave(p) ==
    /\ proc[p].op = "sendReset" /\ proc[p].pc = "save"
    /\ resets' = resets \cup {proc[p].reset}
    /\ proc' = [proc EXCEPT ![p] = [proc[p] EXCEPT !.pc = "mail", !.wrote = TRUE]]
    /\ UNCHANGED <<config, app, users, outbox, now, ticks, calls, known, minted, boundTo, rotated, consumed, promoted>>

\* await this.mailService.sendEmail({...}) delivers.
SendMail(p) ==
    /\ proc[p].op = "sendReset" /\ proc[p].pc = "mail"
    /\ outbox' = outbox \cup {[to |-> proc[p].user.email, token |-> proc[p].reset.token]}
    /\ proc' = [proc EXCEPT ![p] = Finish(p, "ok")]
    /\ UNCHANGED <<config, app, users, resets, now, ticks, calls, known, minted, boundTo, rotated, consumed, promoted>>

\* await this.mailService.sendEmail({...}) throws: nothing catches it.
SendMailFails(p) ==
    /\ proc[p].op = "sendReset" /\ proc[p].pc = "mail"
    /\ proc' = [proc EXCEPT ![p] = Finish(p, "DeliveryError")]
    /\ UNCHANGED <<config, app, users, resets, outbox, now, ticks, calls, known, minted, boundTo, rotated, consumed, promoted>>

---------------------------------------------------------------------------
\* resetPassword(token, newPassword)

ResetPassword(p, token, newPassword) ==
    /\ Start(p, "reset", [NoArg EXCEPT !.token = token, !.password = newPassword])
    /\ UNCHANGED <<config, app, users, resets, outbox, now, ticks, known, minted, boundTo, rotated, consumed, promoted>>

\* passwordResetRepository.findOne({ where: { token } })
FindReset(token) ==
    IF \E r \in resets : r.token = token
    THEN CHOOSE r \in resets : r.token = token
    ELSE NoReset

\* Expired with the comparison turned round.
Expired_Reversed(reset, t) == reset.expiresAt > t

\* reset.expiresAt < new Date()
Expired(reset, t) == reset.expiresAt < t

\* findOne with relations: ['user'] loads the request and its user's row; the
\* guard throws BadRequestException('Invalid or expired reset token'); otherwise
\* the new hash is set on the loaded user object.
ResetFind(p) ==
    /\ proc[p].op = "reset" /\ proc[p].pc = "start"
    /\ LET reset == FindReset(proc[p].arg.token)
       IN  proc' = [proc EXCEPT ![p] =
                IF reset.id = 0 \/ Expired(reset, now)
                THEN Finish(p, "InvalidOrExpiredResetToken")
                ELSE [proc[p] EXCEPT !.pc = "save", !.reset = reset,
                         !.user = [FindById(reset.user) EXCEPT !.password = BcryptHash(proc[p].arg.password)]]]
    /\ UNCHANGED <<config, app, users, resets, outbox, now, ticks, calls, known, minted, boundTo, rotated, consumed, promoted>>

\* userRepository.save(entity) of a loaded row: every column of the row takes the
\* value the entity holds.
SaveUser(user) == [users EXCEPT ![user.id] = user]

\* await this.userRepository.save(reset.user)
ResetSave(p) ==
    /\ proc[p].op = "reset" /\ proc[p].pc = "save"
    /\ users' = SaveUser(proc[p].user)
    /\ proc' = [proc EXCEPT ![p] = [proc[p] EXCEPT !.pc = "delete", !.wrote = TRUE]]
    /\ UNCHANGED <<config, app, resets, outbox, now, ticks, calls, known, minted, boundTo, rotated, consumed, promoted>>

\* A rejected save that resetPassword swallows and carries on to the delete.
ResetSaveFails_Swallowed(p) ==
    /\ proc[p].op = "reset" /\ proc[p].pc = "save"
    /\ proc' = [proc EXCEPT ![p] = [proc[p] EXCEPT !.pc = "delete"]]
    /\ UNCHANGED <<config, app, users, resets, outbox, now, ticks, calls, known, minted, boundTo, rotated, consumed, promoted>>

\* await this.userRepository.save(reset.user) rejects: nothing catches it, the
\* delete on the next line is never reached.
ResetSaveFails(p) ==
    /\ proc[p].op = "reset" /\ proc[p].pc = "save"
    /\ proc' = [proc EXCEPT ![p] = Finish(p, "QueryFailedError")]
    /\ UNCHANGED <<config, app, users, resets, outbox, now, ticks, calls, known, minted, boundTo, rotated, consumed, promoted>>

\* DeleteReset deleting nothing.
DeleteReset_KeepsRow(id) == resets

\* passwordResetRepository.delete({ id })
DeleteReset(id) == {r \in resets : r.id # id}

\* await this.passwordResetRepository.delete({ id: reset.id })
ResetDelete(p) ==
    /\ proc[p].op = "reset" /\ proc[p].pc = "delete"
    /\ resets' = DeleteReset(proc[p].reset.id)
    /\ consumed' = consumed \cup {proc[p].arg.token}
    /\ proc' = [proc EXCEPT ![p] = Finish(p, "ok")]
    /\ UNCHANGED <<config, app, users, outbox, now, ticks, calls, known, minted, boundTo, rotated, promoted>>

\* await this.passwordResetRepository.delete({ id: reset.id }) rejects: the row
\* stays, the password saved on the line before stays too.
ResetDeleteFails(p) ==
    /\ proc[p].op = "reset" /\ proc[p].pc = "delete"
    /\ proc' = [proc EXCEPT ![p] = Finish(p, "QueryFailedError")]
    /\ UNCHANGED <<config, app, users, resets, outbox, now, ticks, calls, known, minted, boundTo, rotated, consumed, promoted>>

---------------------------------------------------------------------------
\* register(registerDto)

Register(p, email, password, role) ==
    /\ Start(p, "register", [NoArg EXCEPT !.email = email, !.password = password, !.role = role])
    /\ UNCHANGED <<config, app, users, resets, outbox, now, ticks, known, minted, boundTo, rotated, consumed, promoted>>

\* findOne by email; `if (existing) throw new Error('Email already exists')`;
\* otherwise create({ email, password: hashed, role }) with the role of the DTO.
RegisterFind(p) ==
    /\ proc[p].op = "register" /\ proc[p].pc = "start"
    /\ proc' = [proc EXCEPT ![p] =
            IF FindByEmail(proc[p].arg.email).id # 0
            THEN Finish(p, "EmailAlreadyExists")
            ELSE [proc[p] EXCEPT !.pc = "save",
                     !.user = [NoUser EXCEPT !.email = proc[p].arg.email,
                                             !.password = BcryptHash(proc[p].arg.password),
                                             !.role = proc[p].arg.role]]]
    /\ UNCHANGED <<config, app, users, resets, outbox, now, ticks, calls, known, minted, boundTo, rotated, consumed, promoted>>

FreeUserIds == {i \in UserIds : users[i].id = 0}

\* The unique index of the User table on email: an insert of `user` is refused
\* when a row holds its email.
UniqueEmailViolated(user) ==
    \E i \in UserIds : users[i].id # 0 /\ users[i].email = user.email

\* await this.userRepository.save(user) refused by the unique index: the
\* QueryFailedError is not caught.
RegisterSaveConflict(p) ==
    /\ proc[p].op = "register" /\ proc[p].pc = "save"
    /\ UniqueEmailViolated(proc[p].user)
    /\ proc' = [proc EXCEPT ![p] = Finish(p, "QueryFailedError")]
    /\ UNCHANGED <<config, app, users, resets, outbox, now, ticks, calls, known, minted, boundTo, rotated, consumed, promoted>>

\* await this.userRepository.save(user): the row is inserted under a new id.
RegisterSave(p) ==
    /\ proc[p].op = "register" /\ proc[p].pc = "save"
    /\ ~UniqueEmailViolated(proc[p].user)
    /\ FreeUserIds # {}
    /\ LET id == CHOOSE i \in FreeUserIds : \A j \in FreeUserIds : i <= j
       IN  users' = SaveUser([proc[p].user EXCEPT !.id = id])
    /\ proc' = [proc EXCEPT ![p] = [Finish(p, "ok") EXCEPT !.wrote = TRUE]]
    /\ UNCHANGED <<config, app, resets, outbox, now, ticks, calls, known, minted, boundTo, rotated, consumed, promoted>>

---------------------------------------------------------------------------
\* promoteToAdmin(requesterId, targetUserId)

PromoteToAdmin(p, requesterId, targetUserId) ==
    /\ Start(p, "promote", [NoArg EXCEPT !.requesterId = requesterId, !.targetUserId = targetUserId])
    /\ UNCHANGED <<config, app, users, resets, outbox, now, ticks, known, minted, boundTo, rotated, consumed, promoted>>

\* canPromote without the role test.
canPromote_AnyUser(requester) == requester.id # 0

\* !requester || requester.role !== UserRole.SUPER_ADMIN
canPromote(requester) == requester.id # 0 /\ requester.role = "SUPER_ADMIN"

\* findOne of the requester; UnauthorizedException unless a super admin.
PromoteRequester(p) ==
    /\ proc[p].op = "promote" /\ proc[p].pc = "start"
    /\ proc' = [proc EXCEPT ![p] =
            IF canPromote(FindById(proc[p].arg.requesterId))
            THEN [proc[p] EXCEPT !.pc = "target"]
            ELSE Finish(p, "Unauthorized")]
    /\ UNCHANGED <<config, app, users, resets, outbox, now, ticks, calls, known, minted, boundTo, rotated, consumed, promoted>>

\* findOne of the target; BadRequestException('Target user does not exist') when
\* there is none; otherwise targetUser.role = UserRole.ADMIN on the loaded object.
PromoteTarget(p) ==
    /\ proc[p].op = "promote" /\ proc[p].pc = "target"
    /\ LET targetUser == FindById(proc[p].arg.targetUserId)
       IN  proc' = [proc EXCEPT ![p] =
                IF targetUser.id = 0 THEN Finish(p, "TargetNotFound")
                ELSE [proc[p] EXCEPT !.pc = "save", !.user = [targetUser EXCEPT !.role = "ADMIN"]]]
    /\ UNCHANGED <<config, app, users, resets, outbox, now, ticks, calls, known, minted, boundTo, rotated, consumed, promoted>>

\* await this.userRepository.save(targetUser); return targetUser
PromoteSave(p) ==
    /\ proc[p].op = "promote" /\ proc[p].pc = "save"
    /\ users' = SaveUser(proc[p].user)
    /\ promoted' = promoted \cup {proc[p].user.id}
    /\ proc' = [proc EXCEPT ![p] = [Finish(p, "ok") EXCEPT !.wrote = TRUE]]
    /\ UNCHANGED <<config, app, resets, outbox, now, ticks, calls, known, minted, boundTo, rotated, consumed>>

---------------------------------------------------------------------------
\* Initial state: a database holding two registered accounts, no session, no
\* pending reset; every request slot free.

SeedUsers ==
    [i \in UserIds |->
        CASE i = 1 -> [id |-> 1, email |-> "root@x.com", password |-> BcryptHash("pw1"), role |-> "SUPER_ADMIN", refreshToken |-> NoHash]
          [] i = 2 -> [id |-> 2, email |-> "a@x.com", password |-> BcryptHash("pw1"), role |-> "USER", refreshToken |-> NoHash]
          [] OTHER -> NoUser]

Init ==
    /\ config = Configured
    /\ app = "running"
    /\ users = SeedUsers
    /\ resets = {}
    /\ outbox = {}
    /\ now = 0
    /\ ticks = 0
    /\ calls = 0
    /\ proc = [p \in Procs |-> Idle]
    /\ known = {}
    /\ minted = [i \in UserIds |-> <<>>]
    /\ boundTo = [i \in UserIds |-> NoJwt]
    /\ rotated = {}
    /\ consumed = {}
    /\ promoted = {}

---------------------------------------------------------------------------
\* Sessions: login and refreshTokens calls of the account a@x.com, interleaved.

SessionEmails == {"a@x.com", "b@x.com"}

\* A refresh token signed by someone who does not hold JWT_REFRESH_SECRET.
ForgedJwt == JwtSign(2, "a@x.com", "not the secret", RefreshExpiresIn, 0)

\* Refresh tokens a caller can present: those returned to callers, and a forgery.
PresentableRefreshTokens == known \cup {ForgedJwt}

NextSession ==
    \/ Tick
    \/ \E p \in Procs :
         \/ \E email \in SessionEmails, password \in Passwords : Login(p, email, password)
         \/ \E refreshToken \in PresentableRefreshTokens : RefreshTokens(p, refreshToken)
         \/ LoginValidate(p)
         \/ RefreshVerify(p)
         \/ RefreshFind(p)
         \/ GetTokens(p)
         \/ UpdateRefreshToken(p)
         \/ UpdateRefreshTokenFails(p)

SpecSession == Init /\ [][NextSession]_vars

---------------------------------------------------------------------------
\* Password resets: sendPasswordResetEmail and resetPassword calls, interleaved.

ResetEmails == {"a@x.com", "b@x.com"}

\* Reset tokens a caller can present: those mailed out, and a value that was
\* never generated.
PresentableResetTokens == {m.token : m \in outbox} \cup {NoReset.token}

NextReset ==
    \/ Tick
    \/ \E p \in Procs :
         \/ \E email \in ResetEmails : SendPasswordResetEmail(p, email)
         \/ \E token \in PresentableResetTokens, newPassword \in Passwords : ResetPassword(p, token, newPassword)
         \/ SendFind(p)
         \/ SendSave(p)
         \/ SendMail(p)
         \/ SendMailFails(p)
         \/ ResetFind(p)
         \/ ResetSave(p)
         \/ ResetDelete(p)
         \/ ResetSaveFails(p)
         \/ ResetDeleteFails(p)

SpecReset == Init /\ [][NextReset]_vars

\* The table after two sendPasswordResetEmail('a@x.com') calls at time 0 have
\* returned: two pending requests of one user, both mailed.
PendingResets ==
    {[id |-> t, user |-> 2, token |-> t, expiresAt |-> ResetValidity] : t \in {1, 2}}

InitPending ==
    /\ config = Configured
    /\ app = "running"
    /\ users = SeedUsers
    /\ resets = PendingResets
    /\ outbox = {[to |-> "a@x.com", token |-> r.token] : r \in PendingResets}
    /\ now = 0
    /\ ticks = 0
    /\ calls = 0
    /\ proc = [p \in Procs |-> Idle]
    /\ known = {}
    /\ minted = [i \in UserIds |-> <<>>]
    /\ boundTo = [i \in UserIds |-> NoJwt]
    /\ rotated = {}
    /\ consumed = {}
    /\ promoted = {}

SpecPending == InitPending /\ [][NextReset]_vars

---------------------------------------------------------------------------
\* Roles: register and promoteToAdmin calls, interleaved.

NextRole ==
    \E p \in Procs :
         \/ \E email \in Emails, password \in Passwords, role \in UserRole : Register(p, email, password, role)
         \/ \E requesterId \in UserIds, targetUserId \in UserIds : PromoteToAdmin(p, requesterId, targetUserId)
         \/ RegisterFind(p)
         \/ RegisterSave(p)
         \/ RegisterSaveConflict(p)
         \/ PromoteRequester(p)
         \/ PromoteTarget(p)
         \/ PromoteSave(p)

SpecRole == Init /\ [][NextRole]_vars

---------------------------------------------------------------------------
\* Start-up: the factory of JwtModule.registerAsync runs once while the module
\* is initialised, under any setting of the two secrets; login and
\* refreshTokens calls are served once the application runs.

NoError == ""

\* useFactory with the test of JWT_REFRESH_SECRET left out.
useFactory_NoRefreshCheck(configService) ==
    LET secret == configService["JWT_SECRET"]
    IN  IF Falsy(secret)
        THEN [error |-> "JWT_SECRET environment variable is required", secret |-> Undefined]
        ELSE [error |-> NoError, secret |-> secret]

\* useFactory(configService): throws when either secret is falsy, otherwise
\* returns the options { secret, signOptions }.
useFactory(configService) ==
    LET secret == configService["JWT_SECRET"]
        refreshSecret == configService["JWT_REFRESH_SECRET"]
    IN  IF Falsy(secret)
        THEN [error |-> "JWT_SECRET environment variable is required", secret |-> Undefined]
        ELSE IF Falsy(refreshSecret)
        THEN [error |-> "JWT_REFRESH_SECRET environment variable is required", secret |-> Undefined]
        ELSE [error |-> NoError, secret |-> secret]

\* Module initialisation resolves the options provider: an error thrown by the
\* factory ends start-up, otherwise the application starts serving requests.
Bootstrap ==
    /\ app = "starting"
    /\ app' = IF useFactory(config).error = NoError THEN "running" ELSE "aborted"
    /\ UNCHANGED <<config, users, resets, outbox, now, ticks, calls, proc, known, minted, boundTo, rotated, consumed, promoted>>

\* Settings of the environment: each secret unset, empty, or set.
Environments ==
    {c \in [ConfigKeys -> {Undefined, ""} \cup ConfigKeys] : \A k \in ConfigKeys : c[k] \in {Undefined, "", k}}

InitBoot ==
    /\ config \in Environments
    /\ app = "starting"
    /\ users = SeedUsers
    /\ resets = {}
    /\ outbox = {}
    /\ now = 0
    /\ ticks = 0
    /\ calls = 0
    /\ proc = [p \in Procs |-> Idle]
    /\ known = {}
    /\ minted = [i \in UserIds |-> <<>>]
    /\ boundTo = [i \in UserIds |-> NoJwt]
    /\ rotated = {}
    /\ consumed = {}
    /\ promoted = {}

NextBoot ==
    \/ Bootstrap
    \/ NextSession

SpecBoot == InitBoot /\ [][NextBoot]_vars

---------------------------------------------------------------------------
\* One account under the handlers that save or update its row: resetPassword,
\* promoteToAdmin, login and refreshTokens calls on a@x.com, interleaved, from a
\* table that holds its pending reset requests.

FrameEmails == {"a@x.com"}

FrameTargets == {2}

NextFrame ==
    \/ Tick
    \/ \E p \in Procs :
         \/ \E email \in FrameEmails, password \in Passwords : Login(p, email, password)
         \/ \E refreshToken \in known : RefreshTokens(p, refreshToken)
         \/ \E token \in PresentableResetTokens, newPassword \in Passwords : ResetPassword(p, token, newPassword)
         \/ \E requesterId \in UserIds, targetUserId \in FrameTargets : PromoteToAdmin(p, requesterId, targetUserId)
         \/ LoginValidate(p)
         \/ RefreshVerify(p)
         \/ RefreshFind(p)
         \/ GetTokens(p)
         \/ UpdateRefreshToken(p)
         \/ ResetFind(p)
         \/ ResetSave(p)
         \/ ResetDelete(p)
         \/ PromoteRequester(p)
         \/ PromoteTarget(p)
         \/ PromoteSave(p)

SpecFrame == InitPending /\ [][NextFrame]_vars

---------------------------------------------------------------------------
\* Every handler, interleaved.

Next ==
    \/ Tick
    \/ \E p \in Procs :
         \/ \E email \in Emails, password \in Passwords, role \in UserRole : Register(p, email, password, role)
         \/ \E email \in Emails, password \in Passwords : Login(p, email, password)
         \/ \E refreshToken \in PresentableRefreshTokens : RefreshTokens(p, refreshToken)
         \/ \E email \in Emails : SendPasswordResetEmail(p, email)
         \/ \E token \in PresentableResetTokens, newPassword \in Passwords : ResetPassword(p, token, newPassword)
         \/ \E requesterId \in UserIds, targetUserId \in UserIds : PromoteToAdmin(p, requesterId, targetUserId)
         \/ RegisterFind(p)
         \/ RegisterSave(p)
         \/ RegisterSaveConflict(p)
         \/ LoginValidate(p)
         \/ RefreshVerify(p)
         \/ RefreshFind(p)
         \/ GetTokens(p)
         \/ UpdateRefreshToken(p)
         \/ UpdateRefreshTokenFails(p)
         \/ SendFind(p)
         \/ SendSave(p)
         \/ SendMail(p)
         \/ SendMailFails(p)
         \/ ResetFind(p)
         \/ ResetSave(p)
         \/ ResetDelete(p)
         \/ ResetSaveFails(p)
         \/ ResetDeleteFails(p)
         \/ PromoteRequester(p)
         \/ PromoteTarget(p)
         \/ PromoteSave(p)

Spec == Init /\ [][Next]_vars

---------------------------------------------------------------------------
\* Properties.

Quiescent == \A p \in Procs : proc[p].pc = "done"

\* A refresh call presenting `refreshToken` now would pass verifyAsync and the
\* binding check.
WouldRefresh(refreshToken) ==
    /\ JwtVerify(refreshToken, "JWT_REFRESH_SECRET", now)
    /\ RefreshAccepts(FindById(refreshToken.sub), refreshToken)

\* C1: the refresh token a login has bound passes a first refreshTokens call run
\* in isolation while it has not expired, and a refreshTokens call presenting a
\* token that an earlier successful refreshTokens call has already rotated ends
\* with InvalidRefreshToken.
C1_RotatedTokenRejected ==
    /\ \A u \in UserIds :
        (Quiescent /\ boundTo[u] # NoJwt /\ JwtVerify(boundTo[u], "JWT_REFRESH_SECRET", now))
            => WouldRefresh(boundTo[u])
    /\ \A p \in Procs :
        (proc[p].op = "refresh" /\ proc[p].late /\ proc[p].pc = "done")
            => proc[p].result = "InvalidRefreshToken"

\* C2: no two resetPassword calls presenting the same reset token both succeed.
C2_ResetConsumedOnce ==
    \A p, q \in Procs :
        (/\ p # q
         /\ proc[p].op = "reset" /\ proc[q].op = "reset"
         /\ proc[p].arg.token = proc[q].arg.token
         /\ proc[p].pc = "done" /\ proc[q].pc = "done")
            => ~(proc[p].result = "ok" /\ proc[q].result = "ok")

\* C3: a user is ADMIN only if a promoteToAdmin call of a SUPER_ADMIN requester
\* saved that role, and no user is SUPER_ADMIN that was not one to begin with:
\* no other handler creates a role above USER.
C3_ElevationOnlyByPromotion ==
    \A i \in UserIds :
        users[i].id # 0 =>
            /\ users[i].role = "ADMIN" => i \in promoted
            /\ users[i].role = "SUPER_ADMIN" => SeedUsers[i].role = "SUPER_ADMIN"

\* C4: the save that ends a promoteToAdmin call lowers no user's role in the
\* order USER < ADMIN < SUPER_ADMIN.
C4_PromoteNeverLowers ==
    [][\A p \in Procs :
          (proc[p].op = "promote" /\ proc[p].pc = "save" /\ proc'[p].pc = "done")
              => \A i \in UserIds : RoleRank(users'[i].role) >= RoleRank(users[i].role)]_vars

\* C5: a stored refresh-token hash verifies the refresh token signed last for its
\* user and rejects every other refresh token signed for that user before.
C5_StoredHashIsLatest ==
    \A u \in UserIds :
        users[u].refreshToken.set =>
            /\ Len(minted[u]) > 0
            /\ LET latest == minted[u][Len(minted[u])]
               IN  /\ BcryptCompareJwt(latest, users[u].refreshToken)
                   /\ \A i \in 1..(Len(minted[u]) - 1) :
                        minted[u][i] # latest => ~BcryptCompareJwt(minted[u][i], users[u].refreshToken)

\* C6: when two overlapping refreshTokens calls presenting the same token have
\* both succeeded, the token returned by the call whose hash was written last
\* passes a refresh and the token returned by the other call does not.
C6_LastWriterWins ==
    \A p, q \in Procs :
        (/\ p # q
         /\ Quiescent
         /\ proc[p].op = "refresh" /\ proc[q].op = "refresh"
         /\ proc[p].arg.refreshToken = proc[q].arg.refreshToken
         /\ proc[p].result = "ok" /\ proc[q].result = "ok"
         /\ ~proc[p].late /\ ~proc[q].late
         /\ boundTo[proc[p].user.id] = proc[p].tokens.refreshToken
         /\ JwtVerify(proc[p].tokens.refreshToken, "JWT_REFRESH_SECRET", now)
         /\ JwtVerify(proc[q].tokens.refreshToken, "JWT_REFRESH_SECRET", now))
            => /\ WouldRefresh(proc[p].tokens.refreshToken)
               /\ ~WouldRefresh(proc[q].tokens.refreshToken)

\* C7: a successful refreshTokens call returns a refresh token other than the
\* one it was presented, whatever the time since that one was signed.
C7_RefreshReturnsNewToken ==
    \A p \in Procs :
        (proc[p].op = "refresh" /\ proc[p].pc = "done" /\ proc[p].result = "ok")
            => proc[p].tokens.refreshToken # proc[p].arg.refreshToken

\* C8: a resetPassword call that starts after a call with the same token has
\* succeeded never gets past its lookup: it ends with InvalidOrExpiredResetToken
\* and has written nothing.
C8_ConsumedTokenRejected ==
    \A p \in Procs :
        (proc[p].op = "reset" /\ proc[p].late)
            => /\ proc[p].pc \in {"start", "done"}
               /\ proc[p].pc = "done" => proc[p].result = "InvalidOrExpiredResetToken"
               /\ ~proc[p].wrote
               /\ FindReset(proc[p].arg.token) = NoReset

C8_Witness ==
    \E p \in Procs :
        /\ proc[p].op = "reset" /\ proc[p].late /\ proc[p].pc = "done"
        /\ proc[p].result = "InvalidOrExpiredResetToken"

\* C9: the lookup step of resetPassword, on a token whose stored request has an
\* expiry before the current time, ends the call with InvalidOrExpiredResetToken
\* and changes neither table; it lets the call go on only when a request with
\* the token is stored and the current time does not exceed its expiry.
C9_ExpiredTokenRejected ==
    [][\A p \in Procs :
          (proc[p].op = "reset" /\ proc[p].pc = "start" /\ proc'[p] # proc[p])
              => LET reset == FindReset(proc[p].arg.token)
                 IN  /\ (reset.id # 0 /\ reset.expiresAt < now)
                            => /\ proc'[p].pc = "done"
                               /\ proc'[p].result = "InvalidOrExpiredResetToken"
                               /\ users' = users /\ resets' = resets
                     /\ proc'[p].pc # "done"
                            => /\ reset.id # 0 /\ now <= reset.expiresAt
                               /\ proc'[p].reset = reset]_vars

C9_Witness ==
    \E p \in Procs :
        /\ proc[p].op = "reset" /\ proc[p].pc = "done"
        /\ proc[p].result = "InvalidOrExpiredResetToken"
        /\ \E r \in resets : r.token = proc[p].arg.token /\ r.expiresAt < now

\* C10: every step of a sendPasswordResetEmail call whose email matches no user
\* ends the call with success and leaves the User table, the PasswordReset table
\* and the mail outbox as they were.
C10_UnknownEmailNoEffect ==
    [][\A p \in Procs :
          (/\ proc[p].op = "sendReset" /\ proc[p].pc # "done"
           /\ FindByEmail(proc[p].arg.email).id = 0
           /\ proc'[p] # proc[p])
              => /\ proc'[p].pc = "done" /\ proc'[p].result = "ok"
                 /\ users' = users /\ resets' = resets /\ outbox' = outbox]_vars

C10_Witness ==
    \E p \in Procs :
        /\ proc[p].op = "sendReset" /\ proc[p].pc = "done" /\ proc[p].result = "ok"
        /\ FindByEmail(proc[p].arg.email).id = 0
        /\ ~proc[p].wrote


\* C11: every finished sendPasswordResetEmail call has returned the same generic
\* success, whether or not its email belongs to a user and whether or not the
\* mail could be delivered.
C11_SendReturnsSuccess ==
    \A p \in Procs :
        (proc[p].op = "sendReset" /\ proc[p].pc = "done") => proc[p].result = "ok"


\* C12: a promoteToAdmin call whose requester is missing or not SUPER_ADMIN ends
\* with Unauthorized at its first step, before the target is loaded; otherwise a
\* missing target ends it with TargetNotFound; neither failure changes a user
\* row; otherwise the call saves, succeeds, and the target's stored role is ADMIN.
C12_PromoteOutcomes ==
    [][\A p \in Procs :
          (proc[p].op = "promote" /\ proc[p].pc # "done" /\ proc'[p] # proc[p])
              => LET requester == FindById(proc[p].arg.requesterId)
                     target == FindById(proc[p].arg.targetUserId)
                 IN  /\ (proc[p].pc = "start" /\ (requester.id = 0 \/ requester.role # "SUPER_ADMIN"))
                            => /\ proc'[p].pc = "done" /\ proc'[p].result = "Unauthorized"
                               /\ users' = users
                     /\ (proc[p].pc = "start" /\ requester.id # 0 /\ requester.role = "SUPER_ADMIN")
                            => proc'[p].pc = "target" /\ users' = users
                     /\ (proc[p].pc = "target" /\ target.id = 0)
                            => /\ proc'[p].pc = "done" /\ proc'[p].result = "TargetNotFound"
                               /\ users' = users
                     /\ (proc[p].pc = "target" /\ target.id # 0)
                            => proc'[p].pc = "save" /\ users' = users
                     /\ proc[p].pc = "save"
                            => /\ proc'[p].pc = "done" /\ proc'[p].result = "ok"
                               /\ users'[proc[p].arg.targetUserId].role = "ADMIN"
                     /\ proc[p].pc \in {"start", "target", "save"}]_vars

C12_Witness ==
    /\ \E p \in Procs :
        /\ proc[p].op = "promote" /\ proc[p].pc = "done" /\ proc[p].result = "ok"
        /\ users[proc[p].arg.targetUserId].role = "ADMIN"
    /\ \E q \in Procs :
        /\ proc[q].op = "promote" /\ proc[q].pc = "done"
        /\ proc[q].result \in {"Unauthorized", "TargetNotFound"}


\* C13: no two User rows share an email, and a register call that created no
\* row (its email being taken) has ended with EmailAlreadyExists.
C13_RegisterUniqueEmail ==
    /\ \A i, j \in UserIds :
        (i # j /\ users[i].id # 0 /\ users[j].id # 0) => users[i].email # users[j].email
    /\ \A p \in Procs :
        (proc[p].op = "register" /\ proc[p].pc = "done" /\ proc[p].result # "ok")
            => proc[p].result = "EmailAlreadyExists" /\ ~proc[p].wrote


\* C14: a login call with an unknown email, or with a known email and a wrong
\* password, ends at its first step with the one error InvalidCredentials; a
\* login that fails changes no row; a login that succeeds returns the pair it
\* signed and has stored the hash of that pair's refresh token on the user's row.
C14_LoginOutcomes ==
    [][\A p \in Procs :
          (proc[p].op = "login" /\ proc[p].pc # "done" /\ proc'[p] # proc[p])
              => LET user == FindByEmail(proc[p].arg.email)
                 IN  /\ (proc[p].pc = "start" /\ (user.id = 0 \/ user.password # BcryptHash(proc[p].arg.password)))
                            => proc'[p].pc = "done" /\ proc'[p].result = "InvalidCredentials"
                     /\ (proc'[p].pc = "done" /\ proc'[p].result # "ok")
                            => users' = users /\ resets' = resets /\ known' = known
                     /\ (proc'[p].pc = "done" /\ proc'[p].result = "ok")
                            => /\ proc[p].pc = "update"
                               /\ proc'[p].tokens = proc[p].tokens
                               /\ proc[p].tokens.refreshToken.sub = proc[p].user.id
                               /\ proc[p].tokens.accessToken.sub = proc[p].user.id
                               /\ users'[proc[p].user.id].refreshToken = BcryptHashJwt(proc[p].tokens.refreshToken)]_vars

C14_Witness ==
    /\ \E p \in Procs :
        /\ proc[p].op = "login" /\ proc[p].pc = "done" /\ proc[p].result = "InvalidCredentials"
        /\ FindByEmail(proc[p].arg.email).id # 0
    /\ \E q \in Procs :
        /\ proc[q].op = "login" /\ proc[q].pc = "done" /\ proc[q].result = "ok"
        /\ users[proc[q].user.id].refreshToken = BcryptHashJwt(proc[q].tokens.refreshToken)


\* C15: every refreshTokens call that does not succeed ends with the one error
\* InvalidRefreshToken, whichever step refused it (signature or expiry, the row
\* lookup and binding check, or the store of the new hash), and a call refused at
\* verification or at the binding check changes no stored hash.
C15_RefreshFailsUniformly ==
    [][\A p \in Procs :
          (/\ proc[p].op = "refresh" /\ proc[p].pc # "done"
           /\ proc'[p].pc = "done" /\ proc'[p].result # "ok")
              => /\ proc'[p].result = "InvalidRefreshToken"
                 /\ proc[p].pc \in {"start", "find"}
                        => \A i \in UserIds : users'[i].refreshToken = users[i].refreshToken]_vars

\* A forged token and a genuine one have both been refused, the genuine one
\* after the call had already signed a new pair.
C15_Witness ==
    \E p, q \in Procs :
        /\ proc[p].op = "refresh" /\ proc[p].pc = "done" /\ proc[p].result = "InvalidRefreshToken"
        /\ proc[p].arg.refreshToken = ForgedJwt
        /\ proc[q].op = "refresh" /\ proc[q].pc = "done" /\ proc[q].result = "InvalidRefreshToken"
        /\ proc[q].arg.refreshToken \in known
        /\ proc[q].tokens # NoTokens


\* C16: in no reachable state has one refreshTokens call signed a new pair for a
\* user (whether or not it has stored the new hash yet) while a concurrent
\* refreshTokens call presenting the same old token, verified and about to run
\* the binding check, is accepted by that check.
C16_OldTokenDeadOnceMinted ==
    \A p, q \in Procs :
        (/\ p # q
         /\ proc[p].op = "refresh"
         /\ proc[p].pc = "update" \/ (proc[p].pc = "done" /\ proc[p].result = "ok")
         /\ proc[q].op = "refresh" /\ proc[q].pc = "find"
         /\ proc[q].arg.refreshToken = proc[p].arg.refreshToken)
            => ~RefreshAccepts(FindById(proc[q].arg.refreshToken.sub), proc[q].arg.refreshToken)


\* C17: a reset request leaves the table only in the delete step of a
\* resetPassword call that loaded that request and whose save of the new
\* password has succeeded; a call whose save is rejected ends with the error,
\* deletes nothing and changes no row, and a call whose delete is rejected
\* leaves the request in the table.
C17_NoDeleteWithoutSave ==
    [][/\ \A r \in resets :
            r \notin resets'
                => \E p \in Procs :
                      /\ proc[p].op = "reset" /\ proc[p].pc = "delete"
                      /\ proc[p].reset = r
                      /\ proc[p].wrote
                      /\ proc'[p].pc = "done" /\ proc'[p].result = "ok"
       /\ \A p \in Procs :
            (/\ proc[p].op = "reset" /\ proc[p].pc \in {"save", "delete"}
             /\ proc'[p].pc = "done" /\ proc'[p].result # "ok")
                => resets' = resets /\ users' = users]_vars

\* One call's save was rejected, and the request it had loaded was consumed by
\* a later call with the same token.
C17_Witness ==
    \E p, q \in Procs :
        /\ proc[p].op = "reset" /\ proc[p].pc = "done" /\ proc[p].result = "QueryFailedError"
        /\ ~proc[p].wrote
        /\ proc[q].op = "reset" /\ proc[q].pc = "done" /\ proc[q].result = "ok"
        /\ proc[q].reset = proc[p].reset
        /\ proc[p].reset \notin resets


\* C18: the requests of one user are independent and each is consumed at most
\* once: every mailed request that no resetPassword call has consumed is still
\* in the table, and after a request of a user has been consumed no two
\* resetPassword calls presenting one other token of that user both succeed.
C18_PendingIndependent ==
    /\ \A m \in outbox :
        m.token \notin consumed => \E r \in resets : r.token = m.token
    /\ \A p, q \in Procs :
        (/\ p # q
         /\ proc[p].op = "reset" /\ proc[p].pc = "done" /\ proc[p].result = "ok"
         /\ proc[q].op = "reset" /\ proc[q].pc = "done" /\ proc[q].result = "ok"
         /\ \E t \in consumed : t # proc[p].arg.token /\ t # proc[q].arg.token)
            => proc[p].arg.token # proc[q].arg.token


\* C19: the save of resetPassword changes no user's role and no user's stored
\* refresh-token hash: after it both are what promoteToAdmin, login and
\* refreshTokens last wrote, whatever resetPassword had read at its lookup.
C19_ResetWritesPasswordOnly ==
    [][\A p \in Procs :
          (proc[p].op = "reset" /\ proc[p].pc = "save" /\ proc'[p].pc = "delete")
              => \A i \in UserIds :
                    /\ users'[i].role = users[i].role
                    /\ users'[i].refreshToken = users[i].refreshToken]_vars

\* C20: the save of promoteToAdmin changes no user's password and no user's
\* stored refresh-token hash, and no row but the target's: a reset or a rotation
\* that completed after the target was loaded is still in the row after it.
C20_PromoteWritesRoleOnly ==
    [][\A p \in Procs :
          (proc[p].op = "promote" /\ proc[p].pc = "save" /\ proc'[p].pc = "done")
              => \A i \in UserIds :
                    /\ users'[i].password = users[i].password
                    /\ users'[i].refreshToken = users[i].refreshToken
                    /\ i # proc[p].arg.targetUserId => users'[i] = users[i]]_vars


\* C21: while JWT_SECRET or JWT_REFRESH_SECRET is absent (unset or empty) the
\* application is never running: start-up has not finished or has aborted, no
\* login or refreshTokens call has started, and no token has been signed.
C21_NoServiceWithoutSecrets ==
    (\E k \in ConfigKeys : Falsy(config[k]))
        => /\ app # "running"
           /\ \A p \in Procs : proc[p].op = "none"
           /\ \A u \in UserIds : minted[u] = <<>>
           /\ known = {}

\* Start-up has aborted on an environment that sets JWT_SECRET and not
\* JWT_REFRESH_SECRET.
C21_Witness ==
    /\ app = "aborted"
    /\ ~Falsy(config["JWT_SECRET"])
    /\ config["JWT_REFRESH_SECRET"] = Undefined

====
